---------------------------- MODULE Spec2Model ----------------------------
(***************************************************************************)
(* A model of the market-making bot of dex-sdk-examples:                   *)
(*   - PerplMarketMakingBot::run     (market-making/src/lib.rs)            *)
(*   - BboStrategy, SpreadStrategy, TakerStrategy                          *)
(*                                   (market-making/src/strategies/*.rs)   *)
(*                                                                         *)
(* Two specifications are defined over the same variables:                 *)
(*   Spec          the orchestrator: run()'s outer and inner loop, the     *)
(*                 background confirmation tasks spawned by execute.       *)
(*   SpecStrategy  a caller that invokes initialize and execute of one     *)
(*                 strategy instance in any order on a snapshot.           *)
(* Both abstract what a strategy computes from the book to a BookView;     *)
(* the specifications further down model that computation per strategy.    *)
(***************************************************************************)
EXTENDS Integers, Sequences, FiniteSets, TLC

VARIABLES
    strategy,        \* StrategyType variant held by the bot (self.strategy)
    account_id,      \* the strategy's OnceLock<AccountId>
    exchange,        \* the ExchangeSnapshot of the current run
    pc,              \* where run() is
    restarted,       \* the outer loop has gone around after a stream failure
    runResult,       \* the Err run() returned, "Running" until then
    order_semaphore, \* available permits of the run's Semaphore
    event_buffer,    \* raw event batches received and not yet applied
    received,        \* number of raw event batches the stream has yielded in this run
    error_chan,      \* number of DexErrors queued in the mpsc error channel
    tasks,           \* background confirmation tasks (tokio::spawn)
    last,            \* what the last step did (call arguments, outcome, log line)
    current_mark_price, \* SpreadStrategy::current_mark_price
    chain            \* the exchange itself: the account's resting orders, and
                     \* the event batches the stream has not yet yielded

vars == <<strategy, account_id, exchange, pc, restarted, runResult,
          order_semaphore, event_buffer, received, error_chan, tasks, last,
          current_mark_price, chain>>

---------------------------------------------------------------------------
(* Bounds of the model *)

\* raw event batches the stream yields within one run
MaxBatches == 2
\* account ids a snapshot can hold
MaxAccounts == 2
\* order ids resting on the perpetual in a snapshot
MaxOrders == 1
\* submission failures queued on the error channel that the environment
\* lets accumulate
MaxErrors == 1

\* blocks the exchange produces while the BBO bot is watched
MaxBlocks == 4
\* price levels on each side of the book
MaxTicks == 2

\* SpreadStrategy::orders_per_side
OrdersPerSide == 2
\* orders of the account resting when Spread is first executed
MaxResting == 1
\* mark prices, in whole units
MaxMark == 1
\* orders of the account resting when one Spread execute is looked at
MaxBook == 2

(* Program constants *)

\* tokio::sync::mpsc::channel(100)
ErrChanCap == 100
\* tokio::sync::Semaphore::new(1)
SemaphorePermits == 1
\* UD64::from(i) / udec64!(500): a rung is 1/500 of the mark price
SpreadDivisor == 500

---------------------------------------------------------------------------
(* Data *)

Strategies == {"Bbo", "Spread", "Taker"}
AccountIds == 1..MaxAccounts
OrderIds == 1..MaxOrders
PerpetualId == "perp"

\* OnceLock<AccountId>: the empty cell (OnceLock::new()) and a set one
None == {}
Some(v) == {v}

\* the resting orders of a book: order ids are unique
OrderSets ==
    UNION { { { [order_id |-> o, account_id |-> f[o]] : o \in S } :
              f \in [S -> AccountIds] } : S \in SUBSET OrderIds }

\* what SnapshotBuilder::build can return
Snapshots ==
    [accounts : SUBSET AccountIds,
     perpetuals : SUBSET {PerpetualId},
     orders : OrderSets,
     applied : {<<>>}]

NoSnapshot == [accounts |-> {}, perpetuals |-> {}, orders |-> {}, applied |-> <<>>]

\* what apply_events makes of a raw batch: nothing relevant ("None"), or
\* state events without / with an order fill
BatchKinds == {"None", "Other", "Filled"}

\* what a strategy reads from the book at execute time: whether both best
\* bid and best ask exist, and whether the order descs it computes are empty
BookViews == [bbo : BOOLEAN, descs_empty : BOOLEAN]

\* the views that make a difference to the strategy: BBO decides on the best
\* bid and ask, Spread on the descs it computes, Taker on neither
ViewsFor(s) ==
    CASE s = "Bbo" -> { v \in BookViews : ~v.descs_empty }
      [] s = "Spread" -> { v \in BookViews : v.bbo }
      [] s = "Taker" -> { v \in BookViews : v.bbo /\ ~v.descs_empty }

BindingErrors ==
    {"NoAccountFoundForStrategy", "TooManyAccountsForStrategy",
     "AccountIdAlreadySet", "PerpetualNotFoundInExchangeState"}

\* Spec and SpecStrategy do not look at the exchange behind the snapshot
NoChain == [orders |-> {}, stream |-> <<>>, sent |-> None]

NoStep == [src |-> "none", bound |-> None, held |-> FALSE, acquired |-> FALSE,
           outcome |-> "none", events |-> <<>>, raw |-> "none"]


---------------------------------------------------------------------------
(* The strategies: initialize *)

\* mutant of OnceLockSet: a plain assignment, which overwrites a set cell
MutOnceLockSetOverwrite(cell, v) ==
    [ok |-> TRUE, cell |-> Some(v)]

\* OnceLock::set: stores the value iff the cell is empty, else Err
OnceLockSet(cell, v) ==
    IF cell = None THEN [ok |-> TRUE, cell |-> Some(v)]
                   ELSE [ok |-> FALSE, cell |-> cell]

\* fetch_open_orders: the resting orders of the perpetual owned by the account
FetchOpenOrders(cell, ex) ==
    { o \in ex.orders : Some(o.account_id) = cell }

\* mutant of CancelAllOrders: every order of the book is cancelled
MutCancelAllOrdersWholeBook(cell, ex) ==
    { [type |-> "Cancel", order_id |-> o.order_id] : o \in ex.orders }

\* cancel_all_orders: one Cancel request per open order of the account
CancelAllOrders(cell, ex) ==
    { [type |-> "Cancel", order_id |-> o.order_id] : o \in FetchOpenOrders(cell, ex) }

InitReturn(result, cell, batch) ==
    [result |-> result, account_id |-> cell, batch |-> batch]

\* mutant of BindAccount: the accounts.len() > 1 check is missing
MutBindAccountAnyCount(cell, ex) ==
    IF ex.accounts = {} THEN InitReturn("NoAccountFoundForStrategy", cell, {})
    ELSE LET first == CHOOSE a \in ex.accounts : TRUE
             set == OnceLockSet(cell, first)
         IN  IF ~set.ok THEN InitReturn("AccountIdAlreadySet", set.cell, {})
             ELSE IF PerpetualId \notin ex.perpetuals
             THEN InitReturn("PerpetualNotFoundInExchangeState", set.cell, {})
             ELSE InitReturn("Bound", set.cell, {})

\* the checks the three initialize functions share (account count, binding,
\* perpetual); "Bound" when all of them pass
BindAccount(cell, ex) ==
    IF ex.accounts = {} THEN InitReturn("NoAccountFoundForStrategy", cell, {})
    ELSE IF Cardinality(ex.accounts) > 1
    THEN InitReturn("TooManyAccountsForStrategy", cell, {})
    ELSE LET first == CHOOSE a \in ex.accounts : TRUE
             set == OnceLockSet(cell, first)
         IN  IF ~set.ok THEN InitReturn("AccountIdAlreadySet", set.cell, {})
             ELSE IF PerpetualId \notin ex.perpetuals
             THEN InitReturn("PerpetualNotFoundInExchangeState", set.cell, {})
             ELSE InitReturn("Bound", set.cell, {})

\* BboStrategy::initialize; txOk: the cancel-all transaction is sent and
\* its receipt obtained
BboInitialize(cell, ex, txOk) ==
    LET b == BindAccount(cell, ex)
    IN  IF b.result # "Bound" THEN b
        ELSE LET order_descs == CancelAllOrders(b.account_id, ex)
             IN  IF order_descs = {} THEN InitReturn("Ok", b.account_id, {})
                 ELSE IF txOk THEN InitReturn("Ok", b.account_id, order_descs)
                 ELSE InitReturn("TransactionError", b.account_id, order_descs)

\* SpreadStrategy::initialize
SpreadInitialize(cell, ex) ==
    LET b == BindAccount(cell, ex)
    IN  IF b.result # "Bound" THEN b ELSE InitReturn("Ok", b.account_id, {})

\* TakerStrategy::initialize
TakerInitialize(cell, ex) ==
    LET b == BindAccount(cell, ex)
    IN  IF b.result # "Bound" THEN b ELSE InitReturn("Ok", b.account_id, {})

\* the all-or-nothing flag each strategy passes to execOpsAndOrders
Atomic(s) ==
    CASE s = "Bbo" -> TRUE
      [] s = "Spread" -> FALSE
      [] s = "Taker" -> FALSE

\* impl Strategy for StrategyType: initialize
StrategyInitialize(s, cell, ex, txOk) ==
    CASE s = "Bbo" -> BboInitialize(cell, ex, txOk)
      [] s = "Spread" -> SpreadInitialize(cell, ex)
      [] s = "Taker" -> TakerInitialize(cell, ex)

---------------------------------------------------------------------------
(* The strategies: execute, up to the decision to submit a batch.          *)
(* "panic": the call panics; "noop": it returns having submitted nothing;  *)
(* "submit": it hands a batch to execOpsAndOrders(..).send().              *)

HasFill(events) == \E i \in 1..Len(events) : events[i] = "Filled"

\* mutant of BboExecute: the checks for an empty batch and for a fill are
\* missing
MutBboExecuteNoFillCheck(cell, ex, events, view) ==
    IF cell = None THEN "panic"
    ELSE IF PerpetualId \notin ex.perpetuals THEN "panic"
    ELSE IF ~view.bbo THEN "noop"
    ELSE "submit"

\* BboStrategy::execute
BboExecute(cell, ex, events, view) ==
    IF cell = None THEN "panic"
    ELSE IF events = <<>> THEN "noop"
    ELSE IF ~HasFill(events) THEN "noop"
    ELSE IF PerpetualId \notin ex.perpetuals THEN "panic"
    ELSE IF ~view.bbo THEN "noop"
    ELSE "submit"

\* SpreadStrategy::execute
SpreadExecute(cell, ex, view) ==
    IF PerpetualId \notin ex.perpetuals THEN "panic"
    ELSE IF cell = None THEN "panic"
    ELSE IF view.descs_empty THEN "noop"
    ELSE "submit"

\* TakerStrategy::execute (get_position, then always a batch)
TakerExecute(cell, ex) ==
    IF cell = None THEN "panic"
    ELSE IF ~(cell \subseteq ex.accounts) THEN "panic"
    ELSE "submit"

\* impl Strategy for StrategyType: execute
StrategyExecute(s, cell, ex, events, view) ==
    CASE s = "Bbo" -> BboExecute(cell, ex, events, view)
      [] s = "Spread" -> SpreadExecute(cell, ex, view)
      [] s = "Taker" -> TakerExecute(cell, ex)

---------------------------------------------------------------------------
(* execute, from send() on; the permit; the error channel *)

\* what the last step did; bound is the binding before the step, raw the
\* kind of the raw batch a stream wake received
Step(src, raw, held, acquired, outcome, events) ==
    [src |-> src, bound |-> account_id, held |-> held, acquired |-> acquired,
     outcome |-> outcome, events |-> events, raw |-> raw]

\* mutant of TryAcquire: the permit is handed out whether or not it is free
MutTryAcquireAlways(permits) == TRUE

\* Semaphore::try_acquire_owned succeeds iff a permit is available
TryAcquire(permits) == permits > 0

\* a background confirmation task of this run still owns the permit
PermitHeld == \E i \in 1..Len(tasks) : tasks[i].live

\* the environment: send() may be rejected while fewer than MaxErrors
\* failure reports are queued
SendOutcomes(chan) == IF chan < MaxErrors THEN BOOLEAN ELSE {TRUE}

\* tokio::spawn(async move { res.get_receipt().await ...; drop(permit) })
SpawnConfirmation(ts) == Append(ts, [st |-> "awaiting", live |-> TRUE])

\* Strategy::execute called with an owned permit: the strategy's decision,
\* then builder.send(): Ok spawns the confirmation task, which takes the
\* permit; Err reports on the error channel before execute returns. The
\* permit is dropped when execute returns without having spawned.
\* chan: the error channel's length when execute is called.
Execute(src, raw, held, ex, events, view, sendOk, chan) ==
    LET plan == StrategyExecute(strategy, account_id, ex, events, view)
        outcome == IF plan # "submit" THEN plan
                   ELSE IF sendOk THEN "spawned" ELSE "sendFailed"
        full == outcome = "sendFailed" /\ chan >= ErrChanCap
    IN  /\ last' = Step(src, raw, held, TRUE, outcome, events)
        /\ tasks' = IF outcome = "spawned" THEN SpawnConfirmation(tasks) ELSE tasks
        /\ order_semaphore' = IF outcome = "spawned" \/ full
                              THEN order_semaphore - 1 ELSE order_semaphore
        /\ error_chan' = IF outcome = "sendFailed" /\ ~full THEN chan + 1 ELSE chan
        /\ pc' = IF outcome = "panic" THEN "panicked"
                 ELSE IF full THEN "blocked" ELSE pc

---------------------------------------------------------------------------
(* PerplMarketMakingBot::run *)

Ids(batches) == [i \in 1..Len(batches) |-> batches[i].id]

\* mutant of PushEvent: the received batch is not kept
MutPushEventDropped(buffer, ev) == buffer

\* event_buffer.push(event)
PushEvent(buffer, ev) == Append(buffer, ev)

\* mutant of StateEvents: only the newest batch's events reach execute
MutStateEventsLastOnly(batches) ==
    IF batches = <<>> \/ batches[Len(batches)].kind = "None" THEN <<>>
    ELSE <<batches[Len(batches)].kind>>

\* mutant of StateEvents: a batch apply_events returned None for is not
\* skipped and counts as a block event
MutStateEventsKeepsNone(batches) ==
    [i \in 1..Len(batches) |-> batches[i].kind]

\* the state events of the batches apply_events returned Some for, flattened
RECURSIVE StateEvents(_)
StateEvents(batches) ==
    IF batches = <<>> THEN <<>>
    ELSE (IF Head(batches).kind = "None" THEN <<>> ELSE <<Head(batches).kind>>)
         \o StateEvents(Tail(batches))

\* snapshot_builder.build().await? and the new error channel
BuildSnapshot(snap, ok) ==
    /\ pc = "build"
    /\ IF ok
       THEN /\ exchange' = snap
            /\ error_chan' = 0
            /\ pc' = "init"
            /\ UNCHANGED runResult
       ELSE /\ pc' = "returned"
            /\ runResult' = "SnapshotBuildError"
            /\ UNCHANGED <<exchange, error_chan>>
    /\ last' = Step("build", "none", FALSE, FALSE, IF ok THEN "Ok" ELSE "SnapshotBuildError", <<>>)
    /\ UNCHANGED <<current_mark_price, chain, strategy, account_id, restarted, order_semaphore,
                   event_buffer, received, tasks>>

\* self.strategy.initialize(..).await?, then the stream, the interval, the
\* semaphore and the event buffer of the run
Initialize(txOk) ==
    /\ pc = "init"
    /\ LET r == StrategyInitialize(strategy, account_id, exchange, txOk)
       IN  /\ account_id' = r.account_id
           /\ last' = Step("initialize", "none", FALSE, FALSE, r.result, <<>>)
           /\ IF r.result = "Ok"
              THEN /\ pc' = "select"
                   /\ order_semaphore' = SemaphorePermits
                   /\ event_buffer' = <<>>
                   /\ received' = 0
                   /\ UNCHANGED runResult
              ELSE /\ pc' = "returned"
                   /\ runResult' = r.result
                   /\ UNCHANGED <<order_semaphore, event_buffer, received>>
    /\ UNCHANGED <<current_mark_price, chain, strategy, exchange, restarted, error_chan, tasks>>

\* select!: dex_stream.next() yields Some(Ok(event))
StreamEvent(kind, view, sendOk) ==
    /\ pc = "select"
    /\ received < MaxBatches
    /\ LET ev == [id |-> received + 1, kind |-> kind]
           buffer == PushEvent(event_buffer, ev)
       IN  /\ received' = received + 1
           /\ IF ~TryAcquire(order_semaphore)
              THEN /\ event_buffer' = buffer
                   /\ last' = Step("stream", kind, PermitHeld, FALSE, "skipped", <<>>)
                   /\ UNCHANGED <<exchange, pc, tasks, order_semaphore, error_chan>>
              ELSE \E failAt \in 0..Len(buffer) :
                   IF failAt > 0
                   THEN \* apply_events(&ev).unwrap() on an Err
                        /\ exchange' = [exchange EXCEPT
                               !.applied = @ \o Ids(SubSeq(buffer, 1, failAt - 1))]
                        /\ event_buffer' = <<>>
                        /\ pc' = "panicked"
                        /\ last' = Step("stream", kind, PermitHeld, TRUE, "panic", <<>>)
                        /\ UNCHANGED <<tasks, order_semaphore, error_chan>>
                   ELSE LET applied == [exchange EXCEPT !.applied = @ \o Ids(buffer)]
                        IN  /\ exchange' = applied
                            /\ event_buffer' = <<>>
                            /\ IF StateEvents(buffer) = <<>>
                               THEN \* block_events.is_empty(): the permit is dropped
                                    /\ last' = Step("stream", kind, PermitHeld, TRUE, "noexec", <<>>)
                                    /\ UNCHANGED <<pc, tasks, order_semaphore, error_chan>>
                               ELSE Execute("stream", kind, PermitHeld, applied,
                                            StateEvents(buffer), view, sendOk, error_chan)
    /\ UNCHANGED <<current_mark_price, chain, strategy, account_id, restarted, runResult>>

\* select!: dex_stream.next() yields None (closed) or Some(Err) (decode
\* error): break, and the outer loop goes around
StreamFailure(how) ==
    /\ pc = "select"
    /\ pc' = "build"
    /\ restarted' = TRUE
    /\ tasks' = [i \in 1..Len(tasks) |-> [tasks[i] EXCEPT !.live = FALSE]]
    /\ order_semaphore' = 0
    /\ event_buffer' = <<>>
    /\ received' = 0
    /\ error_chan' = 0
    /\ last' = Step("stream", "none", PermitHeld, FALSE, how, <<>>)
    /\ UNCHANGED <<current_mark_price, chain, strategy, account_id, exchange, runResult>>

\* mutant of ErrorMessage: a report that finds the permit taken is left in
\* the channel instead of being discarded
MutErrorMessageRequeue(view, sendOk) ==
    /\ pc = "select"
    /\ error_chan > 0
    /\ IF ~TryAcquire(order_semaphore)
       THEN /\ error_chan' = error_chan
            /\ last' = Step("error", "none", PermitHeld, FALSE, "skipped", <<>>)
            /\ UNCHANGED <<pc, tasks, order_semaphore>>
       ELSE Execute("error", "none", PermitHeld, exchange, <<>>, view, sendOk, error_chan - 1)
    /\ UNCHANGED <<current_mark_price, chain, strategy, account_id, exchange, restarted, runResult,
                   event_buffer, received>>

\* select!: error_rx.recv() yields Some(err)
ErrorMessage(view, sendOk) ==
    /\ pc = "select"
    /\ error_chan > 0
    /\ IF ~TryAcquire(order_semaphore)
       THEN /\ error_chan' = error_chan - 1
            /\ last' = Step("error", "none", PermitHeld, FALSE, "skipped", <<>>)
            /\ UNCHANGED <<pc, tasks, order_semaphore>>
       ELSE Execute("error", "none", PermitHeld, exchange, <<>>, view, sendOk, error_chan - 1)
    /\ UNCHANGED <<current_mark_price, chain, strategy, account_id, exchange, restarted, runResult,
                   event_buffer, received>>

\* mutant of TimerTick: a tick that finds the permit taken leaves a task
\* behind that waits for it
MutTimerTickWaits(view, sendOk) ==
    /\ pc = "select"
    /\ IF ~TryAcquire(order_semaphore)
       THEN /\ last' = Step("timer", "none", PermitHeld, FALSE, "skipped", <<>>)
            /\ tasks' = Append(tasks, [st |-> "awaiting", live |-> FALSE])
            /\ UNCHANGED <<pc, order_semaphore, error_chan>>
       ELSE Execute("timer", "none", PermitHeld, exchange, <<>>, view, sendOk, error_chan)
    /\ UNCHANGED <<current_mark_price, chain, strategy, account_id, exchange, restarted, runResult,
                   event_buffer, received>>

\* select!: interval.tick()
TimerTick(view, sendOk) ==
    /\ pc = "select"
    /\ IF ~TryAcquire(order_semaphore)
       THEN /\ last' = Step("timer", "none", PermitHeld, FALSE, "skipped", <<>>)
            /\ UNCHANGED <<pc, tasks, order_semaphore, error_chan>>
       ELSE Execute("timer", "none", PermitHeld, exchange, <<>>, view, sendOk, error_chan)
    /\ UNCHANGED <<current_mark_price, chain, strategy, account_id, exchange, restarted, runResult,
                   event_buffer, received>>

---------------------------------------------------------------------------
(* The background confirmation task spawned by execute *)

Remove(seq, i) == SubSeq(seq, 1, i - 1) \o SubSeq(seq, i + 1, Len(seq))

ProcessAlive == pc \notin {"returned", "panicked"}

\* mutant of ReceiptOk: the task ends without giving the permit back
MutReceiptOkLeaks(i) ==
    /\ ProcessAlive
    /\ tasks[i].st = "awaiting"
    /\ tasks' = Remove(tasks, i)
    /\ last' = Step("task", "none", FALSE, FALSE, "receipt_ok", <<>>)
    /\ UNCHANGED <<current_mark_price, chain, strategy, account_id, exchange, pc, restarted, runResult,
                   order_semaphore, event_buffer, received, error_chan>>

\* res.get_receipt().await is Ok: drop(permit)
ReceiptOk(i) ==
    /\ ProcessAlive
    /\ tasks[i].st = "awaiting"
    /\ tasks' = Remove(tasks, i)
    /\ order_semaphore' = IF tasks[i].live THEN order_semaphore + 1 ELSE order_semaphore
    /\ last' = Step("task", "none", FALSE, FALSE, "receipt_ok", <<>>)
    /\ UNCHANGED <<current_mark_price, chain, strategy, account_id, exchange, pc, restarted, runResult,
                   event_buffer, received, error_chan>>

\* res.get_receipt().await is Err
ReceiptErr(i) ==
    /\ ProcessAlive
    /\ tasks[i].st = "awaiting"
    /\ tasks[i].live => error_chan < MaxErrors
    /\ tasks' = [tasks EXCEPT ![i].st = "failed"]
    /\ last' = Step("task", "none", FALSE, FALSE, "receipt_err", <<>>)
    /\ UNCHANGED <<current_mark_price, chain, strategy, account_id, exchange, pc, restarted, runResult,
                   order_semaphore, event_buffer, received, error_chan>>

\* error_tx.send(error).await.expect(..): waits for room in the channel;
\* with the receiver dropped (after a restart) send is Err and expect panics,
\* which ends the task
ReportError(i) ==
    /\ ProcessAlive
    /\ tasks[i].st = "failed"
    /\ IF tasks[i].live
       THEN /\ error_chan < ErrChanCap
            /\ error_chan' = error_chan + 1
            /\ tasks' = [tasks EXCEPT ![i].st = "reported"]
       ELSE /\ tasks' = Remove(tasks, i)
            /\ UNCHANGED error_chan
    /\ last' = Step("task", "none", FALSE, FALSE, "report", <<>>)
    /\ UNCHANGED <<current_mark_price, chain, strategy, account_id, exchange, pc, restarted, runResult,
                   order_semaphore, event_buffer, received>>

\* drop(permit) after the report
ReleasePermit(i) ==
    /\ ProcessAlive
    /\ tasks[i].st = "reported"
    /\ tasks' = Remove(tasks, i)
    /\ order_semaphore' = IF tasks[i].live THEN order_semaphore + 1 ELSE order_semaphore
    /\ last' = Step("task", "none", FALSE, FALSE, "release", <<>>)
    /\ UNCHANGED <<current_mark_price, chain, strategy, account_id, exchange, pc, restarted, runResult,
                   event_buffer, received, error_chan>>

---------------------------------------------------------------------------
(* Spec: the bot *)

Init ==
    /\ strategy \in Strategies
    /\ account_id = None
    /\ exchange = NoSnapshot
    /\ pc = "build"
    /\ restarted = FALSE
    /\ runResult = "Running"
    /\ order_semaphore = 0
    /\ event_buffer = <<>>
    /\ received = 0
    /\ error_chan = 0
    /\ tasks = <<>>
    /\ last = NoStep
    /\ current_mark_price = 0
    /\ chain = NoChain

Next ==
    \/ \E snap \in Snapshots, ok \in BOOLEAN : BuildSnapshot(snap, ok)
    \/ \E txOk \in BOOLEAN : Initialize(txOk)
    \/ \E kind \in BatchKinds, view \in ViewsFor(strategy), sendOk \in SendOutcomes(error_chan) :
           StreamEvent(kind, view, sendOk)
    \/ \E how \in {"closed", "decode_error"} : StreamFailure(how)
    \/ \E view \in ViewsFor(strategy), sendOk \in SendOutcomes(error_chan - 1) :
           ErrorMessage(view, sendOk)
    \/ \E view \in ViewsFor(strategy), sendOk \in SendOutcomes(error_chan) :
           TimerTick(view, sendOk)
    \/ \E i \in 1..Len(tasks) : ReceiptOk(i)
    \/ \E i \in 1..Len(tasks) : ReceiptErr(i)
    \/ \E i \in 1..Len(tasks) : ReportError(i)
    \/ \E i \in 1..Len(tasks) : ReleasePermit(i)

Spec == Init /\ [][Next]_vars

---------------------------------------------------------------------------
(* SpecStrategy: one strategy instance and one snapshot (any), initialize  *)
(* and execute called in any order, each execute with a permit of a        *)
(* semaphore of the caller                                                 *)

\* initialize called on the snapshot; chain.sent is the batch it hands to
\* execOpsAndOrders, with the flag and whether send() and get_receipt()
\* were Ok, None when it hands over nothing
CallInitialize(txOk) ==
    /\ pc = "caller"
    /\ LET r == StrategyInitialize(strategy, account_id, exchange, txOk)
       IN  /\ account_id' = r.account_id
           /\ last' = Step("initialize", "none", FALSE, FALSE, r.result, <<>>)
           /\ chain' = [chain EXCEPT !.sent =
                  IF r.batch = {} THEN None
                  ELSE Some([order_descs |-> r.batch, atomic |-> Atomic(strategy),
                             receipt |-> txOk])]
    /\ UNCHANGED <<current_mark_price, strategy, exchange, pc, restarted, runResult, order_semaphore,
                   event_buffer, received, error_chan, tasks>>

CallExecute(events, view, sendOk) ==
    /\ pc = "caller"
    /\ TryAcquire(order_semaphore)
    /\ Execute("execute", "none", PermitHeld, exchange, events, view, sendOk, error_chan)
    /\ UNCHANGED <<current_mark_price, chain, strategy, account_id, exchange, restarted, runResult,
                   event_buffer, received>>

InitStrategy ==
    /\ strategy \in Strategies
    /\ account_id = None
    /\ exchange \in Snapshots
    /\ pc = "caller"
    /\ restarted = FALSE
    /\ runResult = "Running"
    /\ order_semaphore = SemaphorePermits
    /\ event_buffer = <<>>
    /\ received = 0
    /\ error_chan = 0
    /\ tasks = <<>>
    /\ last = NoStep
    /\ current_mark_price = 0
    /\ chain = NoChain

NextStrategy ==
    \/ \E txOk \in BOOLEAN : CallInitialize(txOk)
    \/ \E events \in {<<>>, <<"Other">>, <<"Filled">>}, view \in ViewsFor(strategy),
          sendOk \in SendOutcomes(error_chan) : CallExecute(events, view, sendOk)
    \/ \E i \in 1..Len(tasks) : ReceiptOk(i)
    \/ \E i \in 1..Len(tasks) : ReceiptErr(i)
    \/ \E i \in 1..Len(tasks) : ReportError(i)
    \/ \E i \in 1..Len(tasks) : ReleasePermit(i)

SpecStrategy == InitStrategy /\ [][NextStrategy]_vars

---------------------------------------------------------------------------
(* SpecOutage: the bot while the transaction submitter rejects every       *)
(* send(): no confirmation task is ever spawned, every execute that        *)
(* submits reports on the error channel before it returns                  *)

NextOutage ==
    \/ \E snap \in Snapshots, ok \in BOOLEAN : BuildSnapshot(snap, ok)
    \/ \E txOk \in BOOLEAN : Initialize(txOk)
    \/ \E kind \in BatchKinds, view \in ViewsFor(strategy) : StreamEvent(kind, view, FALSE)
    \/ \E view \in ViewsFor(strategy) : ErrorMessage(view, FALSE)
    \/ \E view \in ViewsFor(strategy) : TimerTick(view, FALSE)

SpecOutage == Init /\ [][NextOutage]_vars

---------------------------------------------------------------------------
(* BBO in detail: the book, the order descs execute computes               *)

\* the account of the other market participants
OtherAccount == 0
BidPrices == 1..MaxTicks
AskPrices == (MaxTicks + 1)..(2 * MaxTicks)

Max(S) == CHOOSE x \in S : \A y \in S : y <= x
Min(S) == CHOOSE x \in S : \A y \in S : x <= y

SideOrders(orders, side) == { o \in orders : o.side = side }

\* l3_book().best_bid() / best_ask(): the price of the best level, if any
BestBid(ex) ==
    IF SideOrders(ex.orders, "Bid") = {} THEN None
    ELSE Some(Max({ o.price : o \in SideOrders(ex.orders, "Bid") }))

BestAsk(ex) ==
    IF SideOrders(ex.orders, "Ask") = {} THEN None
    ELSE Some(Min({ o.price : o \in SideOrders(ex.orders, "Ask") }))

\* open_orders.iter().find(|o| side): None, or one of the account's orders
\* of that side (the book's iteration order decides which)
Find(cell, ex, side) ==
    IF SideOrders(FetchOpenOrders(cell, ex), side) = {} THEN {None}
    ELSE { Some(o) : o \in SideOrders(FetchOpenOrders(cell, ex), side) }

\* BboStrategy::place_order
BboPlaceOrder(order_type, price) ==
    [type |-> order_type, order_id |-> None, price |-> price,
     size |-> "order_size", post_only |-> TRUE, immediate_or_cancel |-> FALSE]

\* BboStrategy::update_order
BboUpdateOrder(order, price) ==
    [type |-> "Change", order_id |-> Some(order.order_id), price |-> price,
     size |-> "order_size", post_only |-> TRUE, immediate_or_cancel |-> FALSE]

TheOne(S) == CHOOSE x \in S : TRUE

\* mutant of BboOrderDescs: an existing bid is replaced whenever its price
\* differs from the best bid
MutBboOrderDescsBidDiffers(ex, bid, ask) ==
    LET best_bid == TheOne(BestBid(ex))
        best_ask == TheOne(BestAsk(ex))
        bid_descs == IF bid = None THEN <<BboPlaceOrder("OpenLong", best_bid)>>
                     ELSE <<BboUpdateOrder(TheOne(bid), best_bid)>>
        ask_descs == IF ask = None THEN <<BboPlaceOrder("OpenShort", best_ask)>>
                     ELSE IF TheOne(ask).price > best_ask
                     THEN <<BboUpdateOrder(TheOne(ask), best_ask)>>
                     ELSE <<>>
    IN  bid_descs \o ask_descs

\* the order descs of a qualifying execute (both best prices present): bid
\* and ask are what find() returned for the two sides
BboOrderDescs(ex, bid, ask) ==
    LET best_bid == TheOne(BestBid(ex))
        best_ask == TheOne(BestAsk(ex))
        bid_descs == IF bid = None THEN <<BboPlaceOrder("OpenLong", best_bid)>>
                     ELSE IF TheOne(bid).price < best_bid
                     THEN <<BboUpdateOrder(TheOne(bid), best_bid)>>
                     ELSE <<>>
        ask_descs == IF ask = None THEN <<BboPlaceOrder("OpenShort", best_ask)>>
                     ELSE IF TheOne(ask).price > best_ask
                     THEN <<BboUpdateOrder(TheOne(ask), best_ask)>>
                     ELSE <<>>
    IN  bid_descs \o ask_descs

\* what BBO's execute reads from the snapshot
BboView(ex) ==
    [bbo |-> BestBid(ex) # None /\ BestAsk(ex) # None, descs_empty |-> FALSE]

\* mutant of BboBatch: a side that has a reference price and no order of the
\* account is quoted even when the other side has no reference price
MutBboBatchOneSided(cell, ex, events, bid, ask) ==
    IF cell # None /\ HasFill(events) /\ (BestBid(ex) # None \/ BestAsk(ex) # None)
    THEN Some((IF BestBid(ex) # None /\ bid = None
               THEN <<BboPlaceOrder("OpenLong", TheOne(BestBid(ex)))>> ELSE <<>>)
              \o (IF BestAsk(ex) # None /\ ask = None
                  THEN <<BboPlaceOrder("OpenShort", TheOne(BestAsk(ex)))>> ELSE <<>>))
    ELSE None

\* the batch execute hands to execOpsAndOrders(vec![], order_descs, true),
\* None when it returns before
BboBatch(cell, ex, events, bid, ask) ==
    IF BboExecute(cell, ex, events, BboView(ex)) = "submit"
    THEN Some(BboOrderDescs(ex, bid, ask))
    ELSE None

---------------------------------------------------------------------------
(* SpecBbo: the BBO bot in its inner loop, after initialize's cancel-all,  *)
(* together with the exchange: blocks fill orders and mine the bot's       *)
(* transactions; the stream yields one event batch per block, later.       *)
(* Every transaction is accepted and mined (Spec has the failures).        *)

\* the exchange at the start: orders resting on the perpetual, no block yet,
\* no transaction in flight, no batch handed to execOpsAndOrders yet (sent
\* is the last one that was), nothing for the stream to yield
BboChain(orders) ==
    [orders |-> orders, height |-> 0, pending |-> <<>>, sent |-> None,
     stream |-> <<>>]

\* a block: the book after it, and its event batch queued for the stream
NewBlock(kind, orders, pending) ==
    [chain EXCEPT !.orders = orders,
                  !.height = @ + 1,
                  !.pending = pending,
                  !.stream = Append(@, [id |-> chain.height + 1, kind |-> kind,
                                        orders |-> orders])]

\* another participant posts a quote
EnvQuote(side, price) ==
    /\ pc = "select"
    /\ chain.height < MaxBlocks
    /\ \A o \in SideOrders(chain.orders, side) : o.account_id # OtherAccount
    /\ chain' = NewBlock("Other",
                   chain.orders \cup {[order_id |-> <<chain.height + 1, 1>>,
                                       account_id |-> OtherAccount,
                                       side |-> side, price |-> price]},
                   chain.pending)
    /\ UNCHANGED <<strategy, account_id, exchange, pc, restarted, runResult,
                   order_semaphore, event_buffer, received, error_chan, tasks,
                   last, current_mark_price>>

\* a resting order is filled, in full (it leaves the book) or in part
EnvFill(o, full) ==
    /\ pc = "select"
    /\ chain.height < MaxBlocks
    /\ o \in chain.orders
    /\ chain' = NewBlock("Filled", IF full THEN chain.orders \ {o} ELSE chain.orders,
                         chain.pending)
    /\ UNCHANGED <<strategy, account_id, exchange, pc, restarted, runResult,
                   order_semaphore, event_buffer, received, error_chan, tasks,
                   last, current_mark_price>>

\* one desc of a batch takes effect: a Change reprices the order, an
\* OpenLong / OpenShort rests a new order
ApplyDesc(orders, d, id, owner) ==
    IF d.type = "Change"
    THEN { IF Some(o.order_id) = d.order_id THEN [o EXCEPT !.price = d.price] ELSE o :
           o \in orders }
    ELSE orders \cup {[order_id |-> id, account_id |-> owner,
                       side |-> IF d.type = "OpenLong" THEN "Bid" ELSE "Ask",
                       price |-> d.price]}

RECURSIVE ApplyDescs(_, _, _, _, _)
ApplyDescs(orders, descs, i, height, owner) ==
    IF i > Len(descs) THEN orders
    ELSE ApplyDescs(ApplyDesc(orders, descs[i], <<height, i>>, owner),
                    descs, i + 1, height, owner)

\* execOpsAndOrders(.., .., true): the batch reverts as a whole when one of
\* its descs fails (a Change of an order that no longer rests)
Reverts(orders, descs) ==
    \E i \in 1..Len(descs) :
        /\ descs[i].type = "Change"
        /\ \A o \in orders : Some(o.order_id) # descs[i].order_id

\* the oldest transaction in flight is mined
Mine ==
    /\ pc = "select"
    /\ chain.height < MaxBlocks
    /\ chain.pending # <<>>
    /\ LET tx == Head(chain.pending)
           orders == IF Reverts(chain.orders, tx) THEN chain.orders
                     ELSE ApplyDescs(chain.orders, tx, 1, chain.height + 1,
                                     TheOne(account_id))
       IN  chain' = NewBlock("Other", orders, Tail(chain.pending))
    /\ UNCHANGED <<strategy, account_id, exchange, pc, restarted, runResult,
                   order_semaphore, event_buffer, received, error_chan, tasks,
                   last, current_mark_price>>

\* select!: dex_stream.next() yields the batch of the next block; bid and ask
\* are what find() returns after the batch is applied
BboStreamEvent(sendOk, bid, ask) ==
    /\ pc = "select"
    /\ chain.stream # <<>>
    /\ LET ev == Head(chain.stream)
           buffer == PushEvent(event_buffer, ev)
       IN  /\ received' = received + 1
           /\ IF ~TryAcquire(order_semaphore)
              THEN /\ event_buffer' = buffer
                   /\ last' = Step("stream", ev.kind, PermitHeld, FALSE, "skipped", <<>>)
                   /\ chain' = [chain EXCEPT !.stream = Tail(@)]
                   /\ UNCHANGED <<exchange, pc, tasks, order_semaphore, error_chan>>
              ELSE LET applied == [exchange EXCEPT
                                      !.orders = buffer[Len(buffer)].orders,
                                      !.applied = @ \o Ids(buffer)]
                       batch == BboBatch(account_id, applied, StateEvents(buffer), bid, ask)
                   IN  /\ bid \in Find(account_id, applied, "Bid")
                       /\ ask \in Find(account_id, applied, "Ask")
                       /\ exchange' = applied
                       /\ event_buffer' = <<>>
                       /\ Execute("stream", ev.kind, PermitHeld, applied,
                                  StateEvents(buffer), BboView(applied), sendOk, error_chan)
                       /\ chain' = [chain EXCEPT
                              !.stream = Tail(@),
                              !.sent = IF batch # None THEN batch ELSE @,
                              !.pending = IF batch # None /\ sendOk
                                          THEN Append(@, TheOne(batch)) ELSE @]
    /\ UNCHANGED <<strategy, account_id, restarted, runResult, current_mark_price>>

\* the receipt is there once the transaction is mined
BboReceiptOk(i) ==
    /\ chain.pending = <<>>
    /\ ReceiptOk(i)

\* what a find() over the book of the next batch can return
FindResults ==
    {None} \cup { Some(o) : o \in IF chain.stream = <<>> THEN {}
                                   ELSE FetchOpenOrders(account_id, Head(chain.stream)) }

BookSides(side, prices) ==
    {{}} \cup { {[order_id |-> <<0, side>>, account_id |-> OtherAccount,
                  side |-> side, price |-> p]} : p \in prices }

InitBbo ==
    /\ strategy = "Bbo"
    /\ account_id = Some(Min(AccountIds))
    /\ \E bids \in BookSides("Bid", BidPrices), asks \in BookSides("Ask", AskPrices) :
           /\ chain = BboChain(bids \cup asks)
           /\ exchange = [accounts |-> account_id, perpetuals |-> {PerpetualId},
                          orders |-> bids \cup asks, applied |-> <<>>]
    /\ pc = "select"
    /\ restarted = FALSE
    /\ runResult = "Running"
    /\ order_semaphore = SemaphorePermits
    /\ event_buffer = <<>>
    /\ received = 0
    /\ error_chan = 0
    /\ tasks = <<>>
    /\ last = NoStep
    /\ current_mark_price = 0

NextBbo ==
    \/ \E price \in BidPrices : EnvQuote("Bid", price)
    \/ \E price \in AskPrices : EnvQuote("Ask", price)
    \/ \E o \in chain.orders, full \in BOOLEAN : EnvFill(o, full)
    \/ Mine
    \/ \E bid \in FindResults, ask \in FindResults : BboStreamEvent(TRUE, bid, ask)
    \/ TimerTick(BboView(exchange), TRUE)
    \/ \E i \in 1..Len(tasks) : BboReceiptOk(i)

SpecBbo == InitBbo /\ [][NextBbo]_vars

---------------------------------------------------------------------------
(* SpecBboRetry: SpecBbo with a submitter that may reject a send(), and    *)
(* the inner loop's wake on the failure report                             *)

NextBboRetry ==
    \/ \E price \in BidPrices : EnvQuote("Bid", price)
    \/ \E price \in AskPrices : EnvQuote("Ask", price)
    \/ \E o \in chain.orders, full \in BOOLEAN : EnvFill(o, full)
    \/ Mine
    \/ \E bid \in FindResults, ask \in FindResults, sendOk \in SendOutcomes(error_chan) :
           BboStreamEvent(sendOk, bid, ask)
    \/ ErrorMessage(BboView(exchange), TRUE)
    \/ TimerTick(BboView(exchange), TRUE)
    \/ \E i \in 1..Len(tasks) : BboReceiptOk(i)

SpecBboRetry == InitBbo /\ [][NextBboRetry]_vars

---------------------------------------------------------------------------
(* Spread in detail: process_orders. Prices are carried in units of 1/500  *)
(* of a whole price unit, mark prices in whole units, so that              *)
(* (1 -+ i/500) * mark is the integer (500 -+ i) * mark.                   *)

Sizes == {"order_size", "other_size"}

\* mutant of TargetBid: the rungs start at the mark price
MutTargetBidFromMark(m, i) == (SpreadDivisor - (i - 1)) * m

\* bid_price / ask_price of rung i
TargetBid(m, i) == (SpreadDivisor - i) * m
TargetAsk(m, i) == (SpreadDivisor + i) * m

\* target_bid_prices / target_ask_prices: HashSets, equal prices coincide
TargetPrices(m, type) ==
    IF type = "OpenLong" THEN { TargetBid(m, i) : i \in 1..OrdersPerSide }
                         ELSE { TargetAsk(m, i) : i \in 1..OrdersPerSide }

\* the sequence of the elements of a set of integers, ascending
RECURSIVE Ascending(_)
Ascending(S) == IF S = {} THEN <<>> ELSE <<Min(S)>> \o Ascending(S \ {Min(S)})

Reverse(seq) == [j \in 1..Len(seq) |-> seq[Len(seq) - j + 1]]

\* the orders in which an iteration visits a HashSet or the keys of a
\* HashMap: the two monotone ones, which are all there are for up to two
\* elements and a sample of them for more
Perms(S) == {Ascending(S), Reverse(Ascending(S))}

\* SpreadStrategy::place_order
SpreadPlaceOrder(order_type, price, size) ==
    [type |-> order_type, order_id |-> None, price |-> price, size |-> size,
     post_only |-> TRUE, immediate_or_cancel |-> FALSE]

\* mutant of SpreadUpdateOrder: the order keeps its size
MutSpreadUpdateOrderKeepsSize(order, price, size) ==
    [type |-> "Change", order_id |-> Some(order.order_id), price |-> price,
     size |-> order.size, post_only |-> TRUE, immediate_or_cancel |-> FALSE]

\* SpreadStrategy::update_order
SpreadUpdateOrder(order, price, size) ==
    [type |-> "Change", order_id |-> Some(order.order_id), price |-> price,
     size |-> size, post_only |-> TRUE, immediate_or_cancel |-> FALSE]

\* current_bids / current_asks: the account's open orders of the type keyed
\* by price; of several orders at one price the map keeps the one the book's
\* iteration visits last (ex.iter_desc: the book iterates by descending id)
Current(cell, ex, type) ==
    LET mine == { o \in FetchOpenOrders(cell, ex) : o.type = type }
        at(q) == { o.order_id : o \in { x \in mine : x.price = q } }
        last_id(q) == IF ex.iter_desc THEN Min(at(q)) ELSE Max(at(q))
    IN  [q \in { o.price : o \in mine } |->
            CHOOSE o \in mine : o.price = q /\ o.order_id = last_id(q)]

\* mutant of CreateTargetOrderChanges: an order found at a target price is
\* left alone whatever its size
MutCreateTargetOrderChangesNoResize(current, target_seq, leftover_seq, request_type) ==
    LET remaining == SelectSeq(target_seq, LAMBDA q : q \notin DOMAIN current)
        moved == IF Len(leftover_seq) < Len(remaining)
                 THEN Len(leftover_seq) ELSE Len(remaining)
        moves == [j \in 1..moved |->
                     SpreadUpdateOrder(leftover_seq[j],
                                       remaining[Len(remaining) - j + 1], "order_size")]
        placed == SubSeq(remaining, 1, Len(remaining) - moved)
        places == [j \in 1..Len(placed) |->
                      SpreadPlaceOrder(request_type, placed[j], "order_size")]
    IN  moves \o places

\* mutant of CreateTargetOrderChanges: the orders left over once every
\* unmatched target has been assigned are cancelled
MutCreateTargetOrderChangesCancelsExcess(current, target_seq, leftover_seq, request_type) ==
    LET matched == SelectSeq(target_seq, LAMBDA q : q \in DOMAIN current)
        resized == SelectSeq(matched, LAMBDA q : current[q].size # "order_size")
        updates == [j \in 1..Len(resized) |->
                       SpreadUpdateOrder(current[resized[j]], resized[j], "order_size")]
        remaining == SelectSeq(target_seq, LAMBDA q : q \notin DOMAIN current)
        moved == IF Len(leftover_seq) < Len(remaining)
                 THEN Len(leftover_seq) ELSE Len(remaining)
        moves == [j \in 1..moved |->
                     SpreadUpdateOrder(leftover_seq[j],
                                       remaining[Len(remaining) - j + 1], "order_size")]
        placed == SubSeq(remaining, 1, Len(remaining) - moved)
        places == [j \in 1..Len(placed) |->
                      SpreadPlaceOrder(request_type, placed[j], "order_size")]
        cancels == [j \in 1..(Len(leftover_seq) - moved) |->
                       [type |-> "Cancel",
                        order_id |-> Some(leftover_seq[moved + j].order_id),
                        price |-> leftover_seq[moved + j].price,
                        size |-> leftover_seq[moved + j].size,
                        post_only |-> FALSE, immediate_or_cancel |-> FALSE]]
    IN  updates \o moves \o places \o cancels

\* create_target_order_changes; target_seq is the order in which the loop
\* visits target_prices, leftover_seq the order in which current.values()
\* yields the orders left in the map
CreateTargetOrderChanges(current, target_seq, leftover_seq, request_type) ==
    LET matched == SelectSeq(target_seq, LAMBDA q : q \in DOMAIN current)
        resized == SelectSeq(matched, LAMBDA q : current[q].size # "order_size")
        updates == [j \in 1..Len(resized) |->
                       SpreadUpdateOrder(current[resized[j]], resized[j], "order_size")]
        remaining == SelectSeq(target_seq, LAMBDA q : q \notin DOMAIN current)
        moved == IF Len(leftover_seq) < Len(remaining)
                 THEN Len(leftover_seq) ELSE Len(remaining)
        moves == [j \in 1..moved |->
                     SpreadUpdateOrder(leftover_seq[j],
                                       remaining[Len(remaining) - j + 1], "order_size")]
        placed == SubSeq(remaining, 1, Len(remaining) - moved)
        places == [j \in 1..Len(placed) |->
                      SpreadPlaceOrder(request_type, placed[j], "order_size")]
    IN  updates \o moves \o places

\* the iteration orders one side's reconciliation can meet: of the target
\* prices, and of the orders left in the map (by their keys, the prices)
SideIterations(cell, ex, type) ==
    LET current == Current(cell, ex, type)
        targets == TargetPrices(ex.mark_price, type)
    IN  { [targets |-> t, leftover |-> [j \in 1..Len(l) |-> current[l[j]]]] :
            t \in Perms(targets), l \in Perms(DOMAIN current \ targets) }

\* mutant of ProcessOrders: the bids always come first
MutProcessOrdersBidsFirst(cell, ex, prev_mark, bid_it, ask_it) ==
    CreateTargetOrderChanges(Current(cell, ex, "OpenLong"),
                             bid_it.targets, bid_it.leftover, "OpenLong")
    \o CreateTargetOrderChanges(Current(cell, ex, "OpenShort"),
                                ask_it.targets, ask_it.leftover, "OpenShort")

\* process_orders, given the remembered mark price; the new one is
\* ex.mark_price
ProcessOrders(cell, ex, prev_mark, bid_it, ask_it) ==
    LET bids_first == ex.mark_price <= prev_mark
        bid_descs == CreateTargetOrderChanges(Current(cell, ex, "OpenLong"),
                         bid_it.targets, bid_it.leftover, "OpenLong")
        ask_descs == CreateTargetOrderChanges(Current(cell, ex, "OpenShort"),
                         ask_it.targets, ask_it.leftover, "OpenShort")
    IN  IF bids_first THEN bid_descs \o ask_descs ELSE ask_descs \o bid_descs

---------------------------------------------------------------------------
(* SpecSpread: one bound Spread strategy, executed by a caller on a        *)
(* snapshot whose mark price moves; every batch it submits is accepted,    *)
(* and is applied to the book and the snapshot before the next execute     *)

Marks == 0..MaxMark

\* prices at which orders rest when Spread is first executed
RestingPrices == {TargetBid(MaxMark, 1), TargetAsk(MaxMark, 1)}

RestingAttrs ==
    [type : {"OpenLong", "OpenShort"}, price : RestingPrices, size : Sizes]

\* the books of up to n resting orders of the owner
Books(owner, n) ==
    { { [order_id |-> i, account_id |-> owner, type |-> f[i].type,
         price |-> f[i].price, size |-> f[i].size] : i \in S } :
      S \in SUBSET (1..n), f \in [1..n -> RestingAttrs] }

RestingBooks(owner) == Books(owner, MaxResting)

\* one desc of a Spread batch takes effect
SpreadApplyDesc(orders, d, id, owner) ==
    IF d.type = "Change"
    THEN { IF Some(o.order_id) = d.order_id
           THEN [o EXCEPT !.price = d.price, !.size = d.size] ELSE o : o \in orders }
    ELSE orders \cup {[order_id |-> id, account_id |-> owner, type |-> d.type,
                       price |-> d.price, size |-> d.size]}

RECURSIVE SpreadApplyDescs(_, _, _, _, _)
SpreadApplyDescs(orders, descs, i, base, owner) ==
    IF i > Len(descs) THEN orders
    ELSE SpreadApplyDescs(SpreadApplyDesc(orders, descs[i], base + i, owner),
                          descs, i + 1, base, owner)

\* SpreadStrategy::execute on the snapshot with mark price m; chain.descs is
\* the list it computes, chain.flag the flag it passes to execOpsAndOrders
\* with the list, None when it returns before
SpreadCall(m, bid_it, ask_it) ==
    /\ pc = "caller"
    /\ received < MaxBatches
    /\ chain.landed
    /\ TryAcquire(order_semaphore)
    /\ LET ex == [exchange EXCEPT !.mark_price = m]
           order_descs == ProcessOrders(account_id, ex, current_mark_price, bid_it, ask_it)
       IN  /\ exchange' = ex
           /\ current_mark_price' = m
           /\ Execute("execute", "none", PermitHeld, ex, <<>>,
                      [bbo |-> TRUE, descs_empty |-> order_descs = <<>>], TRUE, error_chan)
           /\ chain' = [descs |-> order_descs,
                        flag |-> IF order_descs = <<>> THEN None
                                 ELSE Some(Atomic(strategy)),
                        landed |-> order_descs = <<>>,
                        prev_mark |-> current_mark_price]
    /\ received' = received + 1
    /\ UNCHANGED <<strategy, account_id, restarted, runResult, event_buffer>>

\* the batch last submitted is mined and its events reach the snapshot
SpreadLand ==
    /\ pc = "caller"
    /\ ~chain.landed
    /\ exchange' = [exchange EXCEPT !.orders =
           SpreadApplyDescs(@, chain.descs, 1,
                            Max({0} \cup { o.order_id : o \in exchange.orders }),
                            TheOne(account_id))]
    /\ chain' = [chain EXCEPT !.landed = TRUE]
    /\ UNCHANGED <<strategy, account_id, pc, restarted, runResult, order_semaphore,
                   event_buffer, received, error_chan, tasks, last,
                   current_mark_price>>

\* the receipt of a batch is there once the batch is mined
SpreadReceiptOk(i) == chain.landed /\ ReceiptOk(i)

\* a bound Spread strategy about to be executed for the first time on a
\* snapshot with one of the books
InitSpreadOn(books) ==
    /\ strategy = "Spread"
    /\ account_id = Some(Min(AccountIds))
    /\ \E orders \in books, iter_desc \in BOOLEAN :
           exchange = [accounts |-> account_id, perpetuals |-> {PerpetualId},
                       orders |-> orders, mark_price |-> 0,
                       iter_desc |-> iter_desc, applied |-> <<>>]
    /\ chain = [descs |-> <<>>, flag |-> None, landed |-> TRUE, prev_mark |-> 0]
    /\ pc = "caller"
    /\ restarted = FALSE
    /\ runResult = "Running"
    /\ order_semaphore = SemaphorePermits
    /\ event_buffer = <<>>
    /\ received = 0
    /\ error_chan = 0
    /\ tasks = <<>>
    /\ last = NoStep
    /\ current_mark_price = 0

InitSpread == InitSpreadOn(RestingBooks(Min(AccountIds)))

NextSpread ==
    \/ \E m \in Marks :
         \E bid_it \in SideIterations(account_id, [exchange EXCEPT !.mark_price = m], "OpenLong"),
            ask_it \in SideIterations(account_id, [exchange EXCEPT !.mark_price = m], "OpenShort") :
           SpreadCall(m, bid_it, ask_it)
    \/ SpreadLand
    \/ \E i \in 1..Len(tasks) : SpreadReceiptOk(i)

SpecSpread == InitSpread /\ [][NextSpread]_vars

---------------------------------------------------------------------------
(* SpecReconcile: one Spread execute on any book of up to MaxBook resting  *)
(* orders of the account, several of them at one price included            *)

ReconcileCall(m, bid_it, ask_it) ==
    /\ received = 0
    /\ SpreadCall(m, bid_it, ask_it)

InitReconcile == InitSpreadOn(Books(Min(AccountIds), MaxBook))

NextReconcile ==
    \/ \E m \in Marks :
         \E bid_it \in SideIterations(account_id, [exchange EXCEPT !.mark_price = m], "OpenLong"),
            ask_it \in SideIterations(account_id, [exchange EXCEPT !.mark_price = m], "OpenShort") :
           ReconcileCall(m, bid_it, ask_it)
    \/ SpreadLand
    \/ \E i \in 1..Len(tasks) : SpreadReceiptOk(i)

SpecReconcile == InitReconcile /\ [][NextReconcile]_vars

---------------------------------------------------------------------------
(* Taker in detail: the batch built by TakerStrategy::execute *)

\* UD64::MAX and UD64::ZERO
UD64_MAX == "UD64::MAX"
UD64_ZERO == "UD64::ZERO"

\* size_multiplier * max_order_size, for a multiplier of one and a smaller one
TakerSizes == {"max_order_size", "part_of_max_order_size"}

\* the sizes of the account's position on the perpetual
PositionSizes == {"pos_size", "other_pos_size"}

\* get_position: None, or the position with its type and size
Positions ==
    {None} \cup { Some([type |-> t, size |-> n]) :
                    t \in {"Long", "Short"}, n \in PositionSizes }

\* TakerStrategy::place_order
TakerPlaceOrder(order_type, size) ==
    [type |-> order_type, order_id |-> None,
     price |-> IF order_type = "OpenLong" THEN UD64_MAX ELSE UD64_ZERO,
     size |-> size, post_only |-> FALSE, immediate_or_cancel |-> TRUE]

\* mutant of TakerOrderDescs: the closing order has the target size
MutTakerOrderDescsCloseTarget(position, long, size) ==
    IF long
    THEN (IF position # None /\ TheOne(position).type = "Short"
          THEN <<TakerPlaceOrder("CloseLong", size)>> ELSE <<>>)
         \o <<TakerPlaceOrder("OpenLong", size)>>
    ELSE (IF position # None /\ TheOne(position).type = "Long"
          THEN <<TakerPlaceOrder("CloseShort", size)>> ELSE <<>>)
         \o <<TakerPlaceOrder("OpenShort", size)>>

\* order_descs of TakerStrategy::execute for the coin flip `long` and the
\* sampled size
TakerOrderDescs(position, long, size) ==
    IF long
    THEN (IF position # None /\ TheOne(position).type = "Short"
          THEN <<TakerPlaceOrder("CloseLong", TheOne(position).size)>> ELSE <<>>)
         \o <<TakerPlaceOrder("OpenLong", size)>>
    ELSE (IF position # None /\ TheOne(position).type = "Long"
          THEN <<TakerPlaceOrder("CloseShort", TheOne(position).size)>> ELSE <<>>)
         \o <<TakerPlaceOrder("OpenShort", size)>>

---------------------------------------------------------------------------
(* SpecTaker: one bound Taker strategy executed by a caller; its           *)
(* immediate-or-cancel orders leave the account with whatever position     *)
(* the book allows                                                         *)

\* TakerStrategy::execute with the events passed, the coin flip, the
\* sampled size and the outcome of send()
TakerCall(events, long, size, sendOk) ==
    /\ pc = "caller"
    /\ received < MaxBatches
    /\ chain.landed
    /\ TryAcquire(order_semaphore)
    /\ Execute("execute", "none", PermitHeld, exchange, events,
               [bbo |-> TRUE, descs_empty |-> FALSE], sendOk, error_chan)
    /\ chain' = [descs |-> TakerOrderDescs(exchange.position, long, size),
                 long |-> long, size |-> size, landed |-> ~sendOk]
    /\ received' = received + 1
    /\ UNCHANGED <<strategy, account_id, exchange, restarted, runResult,
                   event_buffer, current_mark_price>>

\* the batch is mined: the orders fill as far as the book allows
TakerLand(position) ==
    /\ pc = "caller"
    /\ ~chain.landed
    /\ exchange' = [exchange EXCEPT !.position = position]
    /\ chain' = [chain EXCEPT !.landed = TRUE]
    /\ UNCHANGED <<strategy, account_id, pc, restarted, runResult, order_semaphore,
                   event_buffer, received, error_chan, tasks, last,
                   current_mark_price>>

\* the receipt of a batch is there once the batch is mined
TakerReceiptOk(i) == chain.landed /\ ReceiptOk(i)

InitTaker ==
    /\ strategy = "Taker"
    /\ account_id = Some(Min(AccountIds))
    /\ \E position \in Positions :
           exchange = [accounts |-> account_id, perpetuals |-> {PerpetualId},
                       orders |-> {}, position |-> position, applied |-> <<>>]
    /\ chain = [descs |-> <<>>, long |-> FALSE, size |-> "max_order_size",
                landed |-> TRUE]
    /\ pc = "caller"
    /\ restarted = FALSE
    /\ runResult = "Running"
    /\ order_semaphore = SemaphorePermits
    /\ event_buffer = <<>>
    /\ received = 0
    /\ error_chan = 0
    /\ tasks = <<>>
    /\ last = NoStep
    /\ current_mark_price = 0

NextTaker ==
    \/ \E events \in {<<>>, <<"Other">>, <<"Filled">>}, long \in BOOLEAN,
          size \in TakerSizes, sendOk \in BOOLEAN :
         TakerCall(events, long, size, sendOk)
    \/ \E position \in Positions : TakerLand(position)
    \/ \E i \in 1..Len(tasks) : TakerReceiptOk(i)

SpecTaker == InitTaker /\ [][NextTaker]_vars

---------------------------------------------------------------------------
(* Claims *)

\* the confirmation tasks of the current run, each owning the run's permit
LiveHolders == { i \in 1..Len(tasks) : tasks[i].live }

\* outcomes of a step in which strategy.execute was entered
ExecOutcomes == {"noop", "spawned", "sendFailed", "panic"}

WakeSources == {"stream", "error", "timer"}

\* C1: within one run at most one permit is checked out at every instant:
\* at most one confirmation task owns the permit, the semaphore's available
\* permits and the owners add up to one while the inner loop runs, and a wake
\* that finds the permit owned by a task neither acquires it nor enters
\* strategy.execute.
C1_SinglePermit ==
    /\ Cardinality(LiveHolders) <= SemaphorePermits
    /\ pc = "select" => order_semaphore + Cardinality(LiveHolders) = SemaphorePermits
    /\ (last.src \in WakeSources /\ last.held) =>
           (~last.acquired /\ last.outcome \notin ExecOutcomes)

\* C1 witness: a timer wake was skipped because a confirmation task owns the permit
C1_Witness ==
    /\ pc = "select"
    /\ last.src = "timer"
    /\ last.held
    /\ last.outcome = "skipped"
    /\ Cardinality(LiveHolders) = 1
    /\ order_semaphore = 0

\* C2: after a stream failure, once the fresh snapshot is built (holding, as
\* before, the bot's one account and the strategy's perpetual) and
\* strategy.initialize has been called again, the inner loop is resumed:
\* run() does not return because of the stream failure.
C2_StreamFailureResumes ==
    ( /\ restarted
      /\ last.src = "initialize"
      /\ exchange.accounts = last.bound
      /\ PerpetualId \in exchange.perpetuals ) => pc = "select"

\* C3: run() returns only with a binding/setup error of strategy.initialize;
\* no other failure makes it return.
C3_ReturnsOnlyOnBindingError ==
    pc = "returned" => runResult \in BindingErrors

\* the result the claim names for an initialize call, its four error
\* conditions taken in the order the claim lists them
C4_Expected(bound, ex) ==
    IF Cardinality(ex.accounts) = 0 THEN "NoAccountFoundForStrategy"
    ELSE IF Cardinality(ex.accounts) > 1 THEN "TooManyAccountsForStrategy"
    ELSE IF bound # None THEN "AccountIdAlreadySet"
    ELSE IF PerpetualId \notin ex.perpetuals THEN "PerpetualNotFoundInExchangeState"
    ELSE "Ok"

C5_LaterInitError(ex) ==
    IF Cardinality(ex.accounts) = 0 THEN "NoAccountFoundForStrategy"
    ELSE IF Cardinality(ex.accounts) > 1 THEN "TooManyAccountsForStrategy"
    ELSE "AccountIdAlreadySet"

\* C5 as stated: once the binding is set no step changes it, and every later
\* initialize call returns AccountIdAlreadySet.
C5_BindingOnceOriginal ==
    [][account_id # None =>
          /\ account_id' = account_id
          /\ last'.src = "initialize" => last'.outcome = "AccountIdAlreadySet"]_vars

\* C5 amended: once the binding is set no step changes it, and every later
\* initialize call returns an error: AccountIdAlreadySet when the snapshot
\* holds exactly one account, NoAccountFoundForStrategy when it holds none,
\* TooManyAccountsForStrategy when it holds several.
C5_BindingOnce ==
    [][account_id # None =>
          /\ account_id' = account_id
          /\ last'.src = "initialize" => last'.outcome = C5_LaterInitError(exchange')]_vars

\* C5 witness: a later initialize, on a snapshot whose single account is not
\* the bound one, returned AccountIdAlreadySet and left the binding as it was
C5_Witness ==
    /\ last.src = "initialize"
    /\ last.bound # None
    /\ last.outcome = "AccountIdAlreadySet"
    /\ account_id = last.bound
    /\ Cardinality(exchange.accounts) = 1
    /\ exchange.accounts # account_id

\* C6: execute on a strategy that no initialize has bound ends in the
\* StrategyNotInitialized error, not in a panic.
C6_UnboundExecuteIsError ==
    (last.src = "execute" /\ last.bound = None) =>
        last.outcome = "StrategyNotInitialized"

\* C7 as stated: a batch received while a confirmation task holds the permit
\* is applied to the snapshot without delay, that is by the wake that
\* received it.
C7_AppliesWhileHeldOriginal ==
    (last.src = "stream" /\ last.raw # "none" /\ last.held) =>
        \E i \in 1..Len(exchange.applied) : exchange.applied[i] = received

\* C7 amended: a stream wake that receives a batch while a confirmation task
\* holds the permit appends the batch to the pending buffer and leaves the
\* snapshot unchanged (applying is delayed); a stream wake that finds the
\* permit free applies every pending batch and the new one, in arrival order,
\* and empties the buffer (unless an apply fails, which panics).
C7_BuffersWhileHeld ==
    [][received' = received + 1 =>
          LET ev == [id |-> received', kind |-> last'.raw]
          IN  IF PermitHeld
              THEN /\ exchange' = exchange
                   /\ event_buffer' = Append(event_buffer, ev)
              ELSE pc' # "panicked" =>
                       /\ event_buffer' = <<>>
                       /\ exchange'.applied =
                              exchange.applied \o Ids(Append(event_buffer, ev))]_vars

\* C7 witness: a batch received while a task holds the permit sits in the
\* pending buffer, not applied
C7_Witness ==
    /\ last.src = "stream"
    /\ last.held
    /\ last.outcome = "skipped"
    /\ event_buffer # <<>>
    /\ event_buffer[Len(event_buffer)].id = received
    /\ \A i \in 1..Len(exchange.applied) : exchange.applied[i] # received

\* the state events of the batches that yield any, in arrival order
C8_Events(batches) ==
    LET some == SelectSeq(batches, LAMBDA b : b.kind # "None")
    IN  [i \in 1..Len(some) |-> some[i].kind]

\* C8 as stated: every received batch is appended to the pending buffer; the
\* stream wake that acquires the permit applies all pending batches once, in
\* arrival order, empties the buffer and invokes strategy.execute once with
\* the concatenation of their state events; no batch is lost or applied twice.
C8_DrainAndExecuteOriginal ==
    [][/\ pc' = "select" =>
              exchange'.applied \o Ids(event_buffer') = [i \in 1..received' |-> i]
       /\ (received' = received + 1 /\ pc' # "panicked") =>
              LET buffer == Append(event_buffer, [id |-> received', kind |-> last'.raw])
              IN  IF last'.acquired
                  THEN /\ exchange'.applied = exchange.applied \o Ids(buffer)
                       /\ event_buffer' = <<>>
                       /\ last'.outcome \in ExecOutcomes
                       /\ last'.events = C8_Events(buffer)
                  ELSE /\ event_buffer' = buffer
                       /\ exchange' = exchange]_vars

\* C8 amended: as C8, except that strategy.execute is invoked (once, with the
\* concatenation of the state events) only if at least one of the drained
\* batches yields applied events, and is not invoked otherwise; a wake in
\* which an apply fails panics instead.
C8_DrainAndExecute ==
    [][/\ pc' = "select" =>
              exchange'.applied \o Ids(event_buffer') = [i \in 1..received' |-> i]
       /\ (received' = received + 1 /\ pc' # "panicked") =>
              LET buffer == Append(event_buffer, [id |-> received', kind |-> last'.raw])
              IN  IF last'.acquired
                  THEN /\ exchange'.applied = exchange.applied \o Ids(buffer)
                       /\ event_buffer' = <<>>
                       /\ IF C8_Events(buffer) = <<>>
                          THEN last'.outcome = "noexec" /\ last'.events = <<>>
                          ELSE /\ last'.outcome \in ExecOutcomes
                               /\ last'.events = C8_Events(buffer)
                  ELSE /\ event_buffer' = buffer
                       /\ exchange' = exchange]_vars

\* C8 witness: a stream wake drained two batches, applied both in arrival
\* order and ran execute on the state events of both
C8_Witness ==
    /\ last.src = "stream"
    /\ last.acquired
    /\ last.outcome \in ExecOutcomes
    /\ Len(last.events) = 2
    /\ exchange.applied = <<1, 2>>
    /\ event_buffer = <<>>

\* C9: an error-channel message is consumed and the inner loop continues; if
\* no confirmation task holds the permit, execute is invoked with an empty
\* event batch; otherwise the message is discarded: execute is not invoked and
\* nothing but the channel changes.
C9_ErrorWake ==
    [][last'.src = "error" =>
          /\ error_chan > 0
          /\ pc' = "select"
          /\ IF PermitHeld
             THEN /\ ~last'.acquired
                  /\ last'.outcome = "skipped"
                  /\ error_chan' = error_chan - 1
                  /\ UNCHANGED <<tasks, order_semaphore, exchange, event_buffer,
                                 account_id>>
             ELSE /\ last'.acquired
                  /\ last'.outcome \in {"noop", "spawned", "sendFailed"}
                  /\ last'.events = <<>>
                  /\ error_chan' = error_chan - 1
                         + (IF last'.outcome = "sendFailed" THEN 1 ELSE 0)]_vars

\* C9 witness: an error-channel message was received with the permit free and
\* execute, run on the empty batch, submitted a batch
C9_Witness ==
    /\ last.src = "error"
    /\ last.acquired
    /\ last.outcome = "spawned"
    /\ last.events = <<>>
    /\ pc = "select"

\* C10: a failure report received from the error channel is never lost: the
\* wake that receives it runs execute.
C10_ReportNotLost ==
    last.src = "error" => last.outcome \in ExecOutcomes

\* C11: a permit handed to execute is released on every path: once execute
\* has been entered, unless a confirmation task took the permit over, the
\* permit is available again (execute has returned and dropped it); execute
\* never stays inside its call holding the permit.
C11_PermitReleased ==
    (pc \in {"select", "blocked"} /\ ~PermitHeld) =>
        order_semaphore = SemaphorePermits

\* the bot's own resting orders on the exchange
OwnOrders == { o \in chain.orders : Some(o.account_id) = account_id }

\* a wake whose step entered strategy.execute (a stream wake never does so
\* with no state events: its panic is that of a failed apply)
ExecuteEntered(step) ==
    /\ step.src \in WakeSources
    /\ step.outcome \in ExecOutcomes
    /\ ~(step.src = "stream" /\ step.events = <<>>)

\* C12: no strategy hands an empty order-desc list to the transaction
\* submitter: the batch execOpsAndOrders last received, if any, is non-empty.
C12_NeverEmptyBatch ==
    chain.sent # Some(<<>>)

\* C13: a BBO execute on an event batch without an order-filled event (the
\* empty batch of a timer or error wake included) submits nothing, changes
\* no strategy state, and the permit is available again when it returns.
C13_BboNoFillNoop ==
    [][( /\ strategy = "Bbo"
         /\ ExecuteEntered(last')
         /\ ~HasFill(last'.events) ) =>
           /\ last'.outcome = "noop"
           /\ tasks' = tasks
           /\ error_chan' = error_chan - (IF last'.src = "error" THEN 1 ELSE 0)
           /\ account_id' = account_id
           /\ current_mark_price' = current_mark_price
           /\ order_semaphore' = SemaphorePermits
           /\ pc' = "select"]_vars

\* C13 witness: BBO's execute ran on a batch of state events without a fill,
\* submitted nothing and left the permit available
C13_Witness ==
    /\ strategy = "Bbo"
    /\ last.src = "stream"
    /\ last.events # <<>>
    /\ ~HasFill(last.events)
    /\ last.outcome = "noop"
    /\ tasks = <<>>
    /\ order_semaphore = SemaphorePermits

\* C14: the bound account never has more than one resting bid nor more than
\* one resting ask on the perpetual.
C14_OneBidOneAsk ==
    /\ Cardinality(SideOrders(OwnOrders, "Bid")) <= 1
    /\ Cardinality(SideOrders(OwnOrders, "Ask")) <= 1

\* a step of SpecSpread that is a call of SpreadStrategy::execute
SpreadCalled == strategy = "Spread" /\ pc = "caller" /\ received' = received + 1

\* the descs of a batch that are new orders of the type
Placements(descs, type) ==
    { j \in 1..Len(descs) : descs[j].type = type /\ descs[j].order_id = None }

\* C15: with no resting order of the account and a mark price m > 0, Spread
\* execute emits exactly 2N descs, all placements of the configured size:
\* N open-long at m*(1 - i/500) and N open-short at m*(1 + i/500), i = 1..N.
C15_FreshLadder ==
    [][ (SpreadCalled /\ FetchOpenOrders(account_id, exchange) = {}
            /\ exchange'.mark_price > 0)
        => LET descs == chain'.descs
               m == exchange'.mark_price
               bids == Placements(descs, "OpenLong")
               asks == Placements(descs, "OpenShort")
           IN  /\ Len(descs) = 2 * OrdersPerSide
               /\ bids \cup asks = 1..Len(descs)
               /\ Cardinality(bids) = OrdersPerSide
               /\ Cardinality(asks) = OrdersPerSide
               /\ { descs[j].price : j \in bids }
                    = { (SpreadDivisor - i) * m : i \in 1..OrdersPerSide }
               /\ { descs[j].price : j \in asks }
                    = { (SpreadDivisor + i) * m : i \in 1..OrdersPerSide }
               /\ \A j \in 1..Len(descs) : descs[j].size = "order_size"
               /\ last'.outcome = "spawned" ]_vars

C15_Witness ==
    /\ strategy = "Spread"
    /\ FetchOpenOrders(account_id, exchange) = {}
    /\ exchange.mark_price > 0
    /\ ~chain.landed
    /\ Len(chain.descs) = 2 * OrdersPerSide
    /\ Len(tasks) = 1

\* C16: when Spread execute has run, its batch has been applied to the
\* snapshot, and execute runs again at the same mark price with the
\* account's orders otherwise unchanged, the second call computes no desc,
\* submits nothing and releases the permit at once.
C16_SpreadIdempotent ==
    [][ (SpreadCalled /\ received > 0 /\ chain.landed
            /\ exchange'.mark_price = exchange.mark_price)
        => /\ chain'.descs = <<>>
           /\ last'.outcome = "noop"
           /\ tasks' = tasks
           /\ order_semaphore' = SemaphorePermits ]_vars

C16_Witness ==
    /\ strategy = "Spread"
    /\ received > 1
    /\ chain.prev_mark = exchange.mark_price
    /\ \E o \in exchange.orders : o.order_id > MaxResting
    /\ chain.descs = <<>>
    /\ last.outcome = "noop"
    /\ order_semaphore = SemaphorePermits

\* the side a desc of a Spread batch works on: its own type, or the type of
\* the resting order it changes
DescSide(d, orders) ==
    IF d.type = "Change"
    THEN (CHOOSE o \in orders : Some(o.order_id) = d.order_id).type
    ELSE d.type

\* in descs every desc of the side `first` precedes every desc of the other side
SideFirst(descs, orders, first) ==
    \A i, j \in 1..Len(descs) :
        (DescSide(descs[i], orders) = first /\ DescSide(descs[j], orders) # first)
            => i < j

\* C17: in a batch Spread emits the bid-side descs precede the ask-side
\* descs when the mark price read is <= the remembered one (initially
\* zero), and the ask-side descs precede otherwise; every execute call,
\* also one that emits nothing, remembers the mark price it read.
C17_SpreadOrdering ==
    [][ SpreadCalled
        => /\ IF exchange'.mark_price <= current_mark_price
              THEN SideFirst(chain'.descs, exchange.orders, "OpenLong")
              ELSE SideFirst(chain'.descs, exchange.orders, "OpenShort")
           /\ current_mark_price' = exchange'.mark_price ]_vars

C17_Witness ==
    /\ strategy = "Spread"
    /\ received > 1
    /\ ~chain.landed
    /\ exchange.mark_price > chain.prev_mark
    /\ current_mark_price = exchange.mark_price
    /\ chain.descs # <<>>
    /\ DescSide(Head(chain.descs), exchange.orders) = "OpenShort"
    /\ \E j \in 1..Len(chain.descs) :
           DescSide(chain.descs[j], exchange.orders) = "OpenLong"

\* a step of SpecTaker that is a call of TakerStrategy::execute
TakerCalled == strategy = "Taker" /\ pc = "caller" /\ received' = received + 1

\* C18: Taker execute emits [a closing order of the full size of the
\* opposite position, the opening order of the target size in the chosen
\* direction] when the account holds a position opposite to the chosen
\* direction, and [the opening order] otherwise; it hands this batch to the
\* submitter on every call, whatever events were passed.
C18_TakerBatch ==
    [][ TakerCalled
        => LET descs == chain'.descs
               position == exchange.position
               long == chain'.long
               opposite == /\ position # None
                           /\ TheOne(position).type = IF long THEN "Short" ELSE "Long"
               opens(d) == /\ d.type = IF long THEN "OpenLong" ELSE "OpenShort"
                           /\ d.size = chain'.size
               closes(d) == /\ d.type \in {"CloseLong", "CloseShort"}
                            /\ d.size = TheOne(position).size
           IN  /\ IF opposite
                  THEN Len(descs) = Len(<<"close", "open">>)
                       /\ closes(descs[1]) /\ opens(descs[Len(descs)])
                  ELSE Len(descs) = Len(<<"open">>) /\ opens(descs[1])
               /\ last'.outcome \in {"spawned", "sendFailed"} ]_vars

C18_Witness ==
    /\ strategy = "Taker"
    /\ chain.long
    /\ exchange.position # None
    /\ TheOne(exchange.position).type = "Short"
    /\ ~chain.landed
    /\ Len(chain.descs) > 1
    /\ HasFill(last.events)
    /\ last.outcome = "spawned"

\* C19: every order Taker emits is immediate-or-cancel and not post-only,
\* priced at the maximum price when it buys (the open-long order and the
\* order closing a short position when the direction is long) and at zero
\* when it sells.
C19_TakerPrices ==
    strategy = "Taker" =>
        \A j \in 1..Len(chain.descs) :
            LET d == chain.descs[j]
                buys == chain.long
            IN  /\ d.immediate_or_cancel
                /\ ~d.post_only
                /\ d.price = IF buys THEN UD64_MAX ELSE UD64_ZERO

\* a step in which a wake of the select! loop fails to acquire the permit
WakeSkipped ==
    /\ pc = "select"
    /\ ~TryAcquire(order_semaphore)
    /\ last'.src \in WakeSources
    /\ last'.outcome = "skipped"

\* C20: a wake that fails to acquire the permit does not invoke execute,
\* leaves the snapshot and the strategy's state unchanged and schedules
\* nothing; a stream wake's raw batch stays in the pending buffer, and that
\* is the only thing retained.
C20_SkippedWakeFrame ==
    [][ WakeSkipped
        => /\ ~last'.acquired
           /\ exchange' = exchange
           /\ account_id' = account_id
           /\ current_mark_price' = current_mark_price
           /\ tasks' = tasks
           /\ order_semaphore' = order_semaphore
           /\ pc' = "select"
           /\ event_buffer' = IF last'.src = "stream"
                              THEN event_buffer
                                   \o <<[id |-> received + 1, kind |-> last'.raw]>>
                              ELSE event_buffer
           /\ error_chan' = IF last'.src = "error" THEN error_chan - 1
                            ELSE error_chan ]_vars

C20_Witness ==
    /\ last.src = "stream"
    /\ last.outcome = "skipped"
    /\ ~last.acquired
    /\ PermitHeld
    /\ event_buffer # <<>>
    /\ event_buffer[Len(event_buffer)].kind = last.raw

\* C21: while the inner loop waits at select, the run's permit is
\* unavailable iff exactly one confirmation task spawned in this run has not
\* finished; the orchestrator holds no permit of its own between iterations.
C21_UnavailableIffOneTask ==
    pc = "select" =>
        /\ ~TryAcquire(order_semaphore) <=> Cardinality(LiveHolders) = 1
        /\ order_semaphore = SemaphorePermits - Cardinality(LiveHolders)

\* C21 witness: the task has reported a receipt failure and not yet dropped
\* the permit
C21_Witness ==
    /\ pc = "select"
    /\ ~TryAcquire(order_semaphore)
    /\ Len(tasks) = 1
    /\ tasks[1].live
    /\ tasks[1].st = "reported"

\* a step of SpecBbo in which BBO's execute hands a batch to the submitter
BboSubmitted ==
    strategy = "Bbo" /\ pc = "select" /\ last'.src = "stream" /\ last'.outcome = "spawned"

\* the descs of a batch that work on a side: new orders of the type, and
\* changes of orders of the set
SideDescs(descs, type, orders) ==
    { j \in 1..Len(descs) :
        \/ descs[j].type = type
        \/ descs[j].type = "Change"
           /\ \E o \in orders : Some(o.order_id) = descs[j].order_id }

\* what a side of the batch must be, given the reference price, the
\* account's orders of the side and those of them priced worse than the
\* reference
SideAsClaimed(descs, type, own, ref, worse) ==
    LET side == SideDescs(descs, type, own)
    IN  /\ Cardinality(side) <= 1
        /\ own = {} =>
              \E j \in side : /\ descs[j].type = type
                              /\ descs[j].order_id = None
                              /\ descs[j].price = ref
        /\ own # {} =>
              \/ side = {} /\ \E o \in own : o \notin worse
              \/ \E j \in side, o \in own :
                    /\ descs[j].type = "Change"
                    /\ descs[j].order_id = Some(o.order_id)
                    /\ descs[j].price = ref
                    /\ o \in worse

\* C22: on a qualifying BBO execute with best bid b and best ask a, the
\* batch holds at most one desc per side: a change of the account's bid to b
\* iff its price is below b, a new open-long at b iff the account has no
\* bid, nothing iff its bid is at b or above; for the ask a change to a iff
\* its price is above a, a new open-short at a iff there is no ask; every
\* desc carries the configured size.
C22_BboDescs ==
    [][ BboSubmitted
        => LET descs == TheOne(chain'.sent)
               b == TheOne(BestBid(exchange'))
               a == TheOne(BestAsk(exchange'))
               own == FetchOpenOrders(account_id, exchange')
               bids == SideOrders(own, "Bid")
               asks == SideOrders(own, "Ask")
           IN  /\ SideAsClaimed(descs, "OpenLong", bids, b, { o \in bids : o.price < b })
               /\ SideAsClaimed(descs, "OpenShort", asks, a, { o \in asks : o.price > a })
               /\ SideDescs(descs, "OpenLong", bids) \cup SideDescs(descs, "OpenShort", asks)
                    = 1..Len(descs)
               /\ \A j \in 1..Len(descs) : descs[j].size = "order_size" ]_vars

\* C22 witness: a batch that moves a resting order of the account
C22_Witness ==
    /\ strategy = "Bbo"
    /\ last.src = "stream"
    /\ last.outcome = "spawned"
    /\ chain.sent # None
    /\ \E j \in 1..Len(TheOne(chain.sent)) : TheOne(chain.sent)[j].type = "Change"

\* C23: a BBO execute on a batch with a fill, when the book has no best bid
\* or no best ask, submits nothing, neither a bid nor an ask, and the permit
\* is released when it returns.
C23_BboNoReferencePrice ==
    [][ (strategy = "Bbo" /\ pc = "select" /\ last'.src = "stream" /\ last'.acquired
            /\ HasFill(last'.events)
            /\ (BestBid(exchange') = None \/ BestAsk(exchange') = None))
        => /\ last'.outcome = "noop"
           /\ chain'.sent = chain.sent
           /\ chain'.pending = chain.pending
           /\ tasks' = tasks
           /\ error_chan' = error_chan
           /\ order_semaphore' = SemaphorePermits ]_vars

\* C23 witness: one side of the book has a best price, the other has none
C23_Witness ==
    /\ strategy = "Bbo"
    /\ last.src = "stream"
    /\ HasFill(last.events)
    /\ last.outcome = "noop"
    /\ exchange.applied # <<>>
    /\ BestBid(exchange) # None
    /\ BestAsk(exchange) = None
    /\ order_semaphore = SemaphorePermits

\* a step of SpecStrategy that is a call of initialize
InitializeCalled == pc = "caller" /\ last'.src = "initialize"

SideReconciled(descs, type, own, targets, after) ==
    LET side == SideDescs(descs, type, own)
        matched == { o \in own : o.price \in targets }
        leftover == { o \in own : o.price \notin targets }
        unmatched == { t \in targets : \A o \in own : o.price # t }
        order(j) == CHOOSE o \in own : Some(o.order_id) = descs[j].order_id
        resizes == { j \in side : /\ descs[j].type = "Change"
                                  /\ order(j) \in matched
                                  /\ descs[j].price = order(j).price }
        moves == { j \in side : /\ descs[j].type = "Change"
                                /\ order(j) \in leftover
                                /\ descs[j].price \in unmatched }
        places == { j \in side : /\ descs[j].type = type
                                 /\ descs[j].order_id = None
                                 /\ descs[j].price \in unmatched }
        U == Cardinality(unmatched)
        L == Cardinality(leftover)
    IN  /\ side = resizes \cup moves \cup places
        /\ { descs[j].order_id : j \in resizes }
             = { Some(o.order_id) : o \in { x \in matched : x.size # "order_size" } }
        /\ Cardinality(moves) = IF U < L THEN U ELSE L
        /\ Cardinality(places) = IF U > L THEN U - L ELSE 0
        /\ \A j \in side : descs[j].size = "order_size"
        /\ \A i, j \in resizes \cup moves : descs[i].order_id = descs[j].order_id => i = j
        /\ \A i, j \in side : descs[i].price = descs[j].price => i = j
        /\ \A t \in targets : \E o \in after :
               o.type = type /\ o.price = t /\ o.size = "order_size"

\* C25: per side, with M orders at target prices, U target prices without
\* an order and L orders at no target price, the descs are exactly one
\* size-only change per matched order of another size, min(U, L) changes
\* each moving a distinct leftover order to a distinct unmatched target, and
\* max(0, U - L) placements at the other unmatched targets; no order and no
\* target price gets two descs, and the batch applied leaves an order of the
\* configured size at every target price.
C25_Reconciliation ==
    [][ SpreadCalled
        => LET descs == chain'.descs
               m == exchange'.mark_price
               own == FetchOpenOrders(account_id, exchange)
               after == SpreadApplyDescs(exchange.orders, descs, 1,
                            Max({0} \cup { o.order_id : o \in exchange.orders }),
                            TheOne(account_id))
           IN  /\ SideReconciled(descs, "OpenLong",
                      { o \in own : o.type = "OpenLong" },
                      { (SpreadDivisor - i) * m : i \in 1..OrdersPerSide }, after)
               /\ SideReconciled(descs, "OpenShort",
                      { o \in own : o.type = "OpenShort" },
                      { (SpreadDivisor + i) * m : i \in 1..OrdersPerSide }, after) ]_vars

\* C26: Spread submits the bid-side and ask-side changes of one execute as a
\* single batch with the all-or-nothing flag set.
C26_SpreadAtomic ==
    strategy = "Spread" => chain.flag \in {None, Some(TRUE)}

\* the snapshot has both best prices, and the account's resting orders are
\* not BBO's desired ones: a side without an order of the account, or with
\* one priced worse than the best price
BboOrdersDiffer(cell, ex) ==
    LET own == FetchOpenOrders(cell, ex)
    IN  /\ BestBid(ex) # None
        /\ BestAsk(ex) # None
        /\ \/ SideOrders(own, "Bid") = {}
           \/ SideOrders(own, "Ask") = {}
           \/ \E o \in SideOrders(own, "Bid") : o.price < TheOne(BestBid(ex))
           \/ \E o \in SideOrders(own, "Ask") : o.price > TheOne(BestAsk(ex))

\* C27: the execute run for a failure report, with an empty event batch,
\* computes the desired orders from the snapshot again and submits a
\* non-empty batch when the account's resting orders differ from them (here
\* for BBO).
C27_RetryReevaluates ==
    [][ (strategy = "Bbo" /\ pc = "select" /\ last'.src = "error" /\ last'.acquired
            /\ BboOrdersDiffer(account_id, exchange))
        => last'.outcome \in {"spawned", "sendFailed"} ]_vars

\* C28: at every invocation of strategy.execute, by a stream, error or timer
\* wake, the pending event buffer is empty and every batch received in this
\* run has been applied to the snapshot the strategy reads.
C28_BufferEmptyAtExecute ==
    [][ (pc = "select" /\ ExecuteEntered(last'))
        => /\ event_buffer' = <<>>
           /\ exchange'.applied = [i \in 1..received' |-> i] ]_vars

\* C29: an initialize that returns an error leaves the strategy as it was
\* before the call; a strategy unbound before a failed initialize is
\* unbound after it.
C29_FailedInitializeNoEffect ==
    [][ (InitializeCalled /\ last'.outcome # "Ok") => account_id' = account_id ]_vars

\* C30: the inner loop never blocks forever: whenever the loop sends a
\* failure report inline, the error channel has room, so the send completes
\* and the loop returns to its select.
C30_InlineSendCompletes == pc # "blocked"

\* the raw batches a stream wake drains: the pending buffer and the batch
\* just received
AllNone(batches) == \A i \in 1..Len(batches) : batches[i].kind = "None"

\* a stream wake that acquired the permit and whose applies all returned
\* Ok(None)
StreamWakeAllNone ==
    /\ pc = "select"
    /\ received' = received + 1
    /\ TryAcquire(order_semaphore)
    /\ AllNone(event_buffer)
    /\ last'.raw = "None"
    /\ pc' # "panicked"

\* C31: on a stream wake that acquires the permit, if every drained raw
\* batch applies to none, strategy.execute is not invoked, the pending
\* buffer is emptied all the same, every drained batch has been applied, and
\* the permit is available again at once for the next wake.
C31_NoEventsNoExecute ==
    [][ StreamWakeAllNone
        => /\ last'.outcome = "noexec"
           /\ ~ExecuteEntered(last')
           /\ event_buffer' = <<>>
           /\ exchange'.applied = [i \in 1..received' |-> i]
           /\ TryAcquire(order_semaphore')
           /\ order_semaphore' = order_semaphore
           /\ tasks' = tasks
           /\ error_chan' = error_chan ]_vars

\* a stream wake found the permit free, applied every batch received so far,
\* its own being irrelevant, and execute was not called
C31_Witness ==
    /\ pc = "select"
    /\ last.src = "stream"
    /\ last.acquired
    /\ last.outcome = "noexec"
    /\ last.raw = "None"
    /\ received = 2
    /\ exchange.applied = <<1, 2>>
    /\ event_buffer = <<>>
    /\ order_semaphore = SemaphorePermits

\* the orders of the set a batch names in a desc
Named(descs, orders) ==
    { o \in orders : \E j \in 1..Len(descs) : descs[j].order_id = Some(o.order_id) }

\* one side of a Spread batch leaves the side's orders standing: own are the
\* account's resting orders of the type, targets the side's target prices,
\* after the book once the batch is applied
SideKept(descs, type, own, targets, after) ==
    LET leftover == { o \in own : o.price \notin targets }
        unmatched == { t \in targets : \A o \in own : o.price # t }
        U == Cardinality(unmatched)
        L == Cardinality(leftover)
        untouched == own \ Named(descs, own)
    IN  /\ Cardinality(leftover \cap untouched) >= L - U
        /\ untouched \subseteq after
        /\ \A o \in own : \E a \in after :
               a.order_id = o.order_id /\ a.account_id = o.account_id /\ a.type = type
        /\ Cardinality({ a \in after : a.type = type }) >= Cardinality(own)

\* C32: a Spread batch holds no Cancel; the account's orders of a side in
\* excess of the side's unmatched target prices get no desc and stand as
\* they were, every order of the account is still resting on its side once
\* the batch is applied, and so the number of the account's resting orders
\* on a side is not reduced by the batch.
C32_NoCancel ==
    [][ SpreadCalled
        => LET descs == chain'.descs
               m == exchange'.mark_price
               own == FetchOpenOrders(account_id, exchange)
               after == SpreadApplyDescs(exchange.orders, descs, 1,
                            Max({0} \cup { o.order_id : o \in exchange.orders }),
                            TheOne(account_id))
           IN  /\ \A j \in 1..Len(descs) :
                      descs[j].type \in {"Change", "OpenLong", "OpenShort"}
               /\ SideKept(descs, "OpenLong",
                      { o \in own : o.type = "OpenLong" },
                      { (SpreadDivisor - i) * m : i \in 1..OrdersPerSide }, after)
               /\ SideKept(descs, "OpenShort",
                      { o \in own : o.type = "OpenShort" },
                      { (SpreadDivisor + i) * m : i \in 1..OrdersPerSide }, after) ]_vars

\* a Spread batch has been applied and the account has more than
\* ordersPerSide open-long orders resting
C32_Witness ==
    /\ strategy = "Spread"
    /\ chain.descs # <<>>
    /\ chain.landed
    /\ Cardinality({ o \in FetchOpenOrders(account_id, exchange) : o.type = "OpenLong" })
           > OrdersPerSide

===========================================================================
